---- MODULE Spec2Model ----
(***************************************************************************)
(* A model of the Ashley Furniture service: the paginated fetch ->         *)
(* transform -> persist pipeline (internal/db), the bbolt store it writes  *)
(* to, the read-side HTTP handler, and the three callers of cmd/main:      *)
(* db.Init, the startup goroutine and the scheduled job.                   *)
(*                                                                         *)
(* float64 values are records [cls, val]: cls is "finite", "inf" or "nan". *)
(* A Go slice is a sequence; the nil slice and the empty slice are both    *)
(* <<>> (the code never builds a non-nil empty slice).  An optional value  *)
(* is a sequence of length 0 or 1.                                         *)
(***************************************************************************)
EXTENDS Integers, Sequences, FiniteSets, TLC

\* ------------------------------------------------------------------ bounds
\* Largest maxRetries handed to fetchPageWithRetry in RetrySpec.
MaxAttempts == 4
\* Longest batch handed to saveEntitiesToDatabase in StoreSpec.
MaxBatch == 2

\* Number of times the scheduler fires the job.
MaxCycles == 1
\* Most links on a page in LoopSpec.
MaxLinks == 3

\* --------------------------------------------------------------- constants
\* fetchPageWithRetry(config, fetcher, page, 3)
DefaultMaxRetries == 3

None == "none"
Nil == "nil"

Buckets == {"products", "prices"}

\* ------------------------------------------------------------------ floats
Fin(n) == [cls |-> "finite", val |-> n]
PosInf == [cls |-> "inf", val |-> 1]
NaN == [cls |-> "nan", val |-> 0]
IsFinite(f) == f.cls = "finite"

\* ------------------------------------------------------------ entity model
\* The identifiers the upstream sends: two catalog SKUs and the empty string.
WireSkus == {"A", "B", ""}
\* bbolt iterates a bucket in byte order of the keys.
KeyOrder == <<"A", "B">>

GetSKU(entity) == entity.Sku

\* A wire Product (type Product): identifier and description vary.
WireProduct(sku, description) ==
    [ConsumerDescription |-> description, Sku |-> sku,
     ItemSalesCategoryCodeKey |-> "ZZ", SeriesId |-> "100",
     ChairQtyPerCarton |-> 0, ItemsPerCase |-> 1, Status |-> "Current",
     UnitHeightMm |-> Fin(114), UnitWidthMm |-> Fin(812),
     UnitDepthMm |-> Fin(1828), ItemWeightKg |-> Fin(7)]

\* A wire Price (type Price): every numeric field is a string.
WirePrice(sku, sell, total) ==
    [Description |-> "d", Sku |-> sku, BasePrice |-> "", SellPrice |-> sell,
     Surcharge |-> "", FobPoint |-> "f", Discount |-> "", DfiDiscount |-> "",
     NetPriceBeforeFreight |-> "", Freight |-> "", ExpressFreight |-> "",
     TotalNetPrice |-> total, ContainerPrice |-> ""]

\* strconv.ParseFloat(s, 64) on the numeric strings of the model: the value
\* and whether an error is reported.  A syntax error gives 0; a range error
\* gives an infinity together with the error; "NaN" parses without error.
ParseFloat64(s) ==
    CASE s = "10" -> [val |-> Fin(10), err |-> FALSE]
      [] s = "25" -> [val |-> Fin(25), err |-> FALSE]
      [] s = "NaN" -> [val |-> NaN, err |-> FALSE]
      [] s = "1e999" -> [val |-> PosInf, err |-> TRUE]
      [] OTHER -> [val |-> Fin(0), err |-> TRUE]

parseFloat(s) ==
    IF s = "" THEN [val |-> Fin(0), err |-> FALSE] ELSE ParseFloat64(s)

\* ProductFetcher.Transform: ItemSeries, Price, SellPrice and TotalNetPrice
\* keep their zero values.
ProductTransform(entity) ==
    [ConsumerDescription |-> entity.ConsumerDescription,
     Sku |-> entity.Sku,
     ItemSalesCategoryCodeKey |-> entity.ItemSalesCategoryCodeKey,
     ItemSeries |-> "",
     SeriesId |-> entity.SeriesId,
     Price |-> Fin(0), SellPrice |-> Fin(0), TotalNetPrice |-> Fin(0),
     Supplier |-> "Ashley Furniture",
     ChairQtyPerCarton |-> entity.ChairQtyPerCarton,
     ItemsPerCase |-> entity.ItemsPerCase,
     Status |-> entity.Status,
     UnitHeightMm |-> entity.UnitHeightMm,
     UnitWidthMm |-> entity.UnitWidthMm,
     UnitDepthMm |-> entity.UnitDepthMm,
     ItemWeightKg |-> entity.ItemWeightKg]

\* PriceFetcher.Transform: the parse error is dropped, the value is kept.
PriceTransform(entity) ==
    [Description |-> entity.Description,
     Sku |-> entity.Sku,
     FobPoint |-> entity.FobPoint,
     BasePrice |-> parseFloat(entity.BasePrice).val,
     SellPrice |-> parseFloat(entity.SellPrice).val,
     Surcharge |-> parseFloat(entity.Surcharge).val,
     Discount |-> parseFloat(entity.Discount).val,
     DfiDiscount |-> parseFloat(entity.DfiDiscount).val,
     NetPriceBeforeFreight |-> parseFloat(entity.NetPriceBeforeFreight).val,
     Freight |-> parseFloat(entity.Freight).val,
     ExpressFreight |-> parseFloat(entity.ExpressFreight).val,
     TotalNetPrice |-> parseFloat(entity.TotalNetPrice).val,
     ContainerPrice |-> parseFloat(entity.ContainerPrice).val]

\* A transform that leaves the identifier of the storage entity empty.
TransformWithoutSku(bucketName, entity) ==
    IF bucketName = "products" THEN [ProductTransform(entity) EXCEPT !.Sku = ""]
    ELSE [PriceTransform(entity) EXCEPT !.Sku = ""]

\* fetcher.Transform of the fetcher whose GetBucketName() is bucketName.
Transform(bucketName, entity) ==
    IF bucketName = "products" THEN ProductTransform(entity)
    ELSE PriceTransform(entity)

\* ------------------------------------------------------------------- JSON
\* The json struct tags of ProductRequestData: Go field -> JSON key.
ProductRequestDataTags ==
    [ConsumerDescription |-> "consumerDescription", Sku |-> "sku",
     ItemSalesCategoryCodeKey |-> "itemSalesCategoryCodeKey",
     ItemSeries |-> "itemSeries", SeriesId |-> "seriesId",
     Price |-> "price", SellPrice |-> "sellPrice",
     TotalNetPrice |-> "totalNetPrice", Supplier |-> "supplier",
     ChairQtyPerCarton |-> "chairQtyPerCarton",
     ItemsPerCase |-> "itemsPerCase", Status |-> "status",
     UnitHeightMm |-> "unitHeightMm", UnitWidthMm |-> "unitWidthMm",
     UnitDepthMm |-> "unitDepthMm", ItemWeightKg |-> "itemWeightKg"]

\* The json struct tags of PriceRequestData.
PriceRequestDataTags ==
    [Description |-> "description", Sku |-> "sku",
     BasePrice |-> "basePrice", SellPrice |-> "sellPrice",
     Surcharge |-> "surcharge", FobPoint |-> "fobPoint",
     Discount |-> "discount", DfiDiscount |-> "dfiDiscount",
     NetPriceBeforeFreight |-> "netPriceBeforeFreight",
     Freight |-> "freight", ExpressFreight |-> "expressFreight",
     TotalNetPrice |-> "totalNetPrice", ContainerPrice |-> "containerPrice"]

\* The float64 fields of the two storage types.
FloatFields(bucketName) ==
    IF bucketName = "products"
    THEN {"Price", "SellPrice", "TotalNetPrice", "UnitHeightMm",
          "UnitWidthMm", "UnitDepthMm", "ItemWeightKg"}
    ELSE {"BasePrice", "SellPrice", "Surcharge", "Discount", "DfiDiscount",
          "NetPriceBeforeFreight", "Freight", "ExpressFreight",
          "TotalNetPrice", "ContainerPrice"}

Tags(bucketName) ==
    IF bucketName = "products" THEN ProductRequestDataTags
    ELSE PriceRequestDataTags

\* json.Marshal of a storage entity: a JSON object keyed by the struct tags;
\* an infinity or a NaN is an UnsupportedValueError.
Marshal(bucketName, transformed) ==
    LET tags == Tags(bucketName)
        keys == {tags[f] : f \in DOMAIN tags}
        FieldOf(k) == CHOOSE f \in DOMAIN tags : tags[f] = k
    IN  IF \E f \in FloatFields(bucketName) : ~IsFinite(transformed[f])
        THEN [err |-> TRUE, data |-> <<>>]
        ELSE [err |-> FALSE, data |-> [k \in keys |-> transformed[FieldOf(k)]]]

\* A decoder whose float fields find no key and keep their zero value.
UnmarshalUntagged(bucketName, data) ==
    LET tags == Tags(bucketName)
    IN  [f \in DOMAIN tags |->
            IF f \in FloatFields(bucketName) THEN Fin(0) ELSE data[tags[f]]]

\* json.Unmarshal of a stored JSON object into the bucket's storage type.
Unmarshal(bucketName, data) ==
    LET tags == Tags(bucketName)
    IN  [f \in DOMAIN tags |-> data[tags[f]]]

\* ------------------------------------------------------------ bbolt store
\* A database is a function from the names of its buckets to the buckets; a
\* bucket is a function from its keys to the stored JSON objects.
EmptyBucket == [k \in {} |-> 0]

\* A bucket creation that starts every time from an empty bucket.
CreateBucketAlways(db, name) ==
    [b \in DOMAIN db \cup {name} |-> IF b = name THEN EmptyBucket ELSE db[b]]

\* tx.CreateBucketIfNotExists(name): an existing bucket is left alone.
CreateBucketIfNotExists(db, name) ==
    IF name \in DOMAIN db THEN db
    ELSE [b \in DOMAIN db \cup {name} |->
            IF b = name THEN EmptyBucket ELSE db[b]]

\* A put that leaves the bucket with the new key only.
PutFresh(bucket, key, data) ==
    IF key = "" THEN [err |-> TRUE, bucket |-> bucket]
    ELSE [err |-> FALSE, bucket |-> [k \in {key} |-> data]]

\* bucket.Put(key, data): ErrKeyRequired for the empty key; otherwise the key
\* is inserted, or its value replaced.
Put(bucket, key, data) ==
    IF key = "" THEN [err |-> TRUE, bucket |-> bucket]
    ELSE [err |-> FALSE,
          bucket |-> [k \in DOMAIN bucket \cup {key} |->
                        IF k = key THEN data ELSE bucket[k]]]

\* The function handed to db.Update by saveEntitiesToDatabase, from entity i
\* on: transform, serialize, put; the first failure ends the loop.
RECURSIVE SaveLoop(_, _, _, _)
SaveLoop(bucket, bucketName, entities, i) ==
    IF i > Len(entities) THEN [err |-> Nil, bucket |-> bucket]
    ELSE LET entity == entities[i]
             transformed == Transform(bucketName, entity)
             m == Marshal(bucketName, transformed)
             r == Put(bucket, GetSKU(entity), m.data)
         IN  IF m.err THEN [err |-> "marshal", bucket |-> bucket]
             ELSE IF r.err THEN [err |-> "put", bucket |-> bucket]
             ELSE SaveLoop(r.bucket, bucketName, entities, i + 1)

\* A writer that keeps the puts made before the failure.
SaveWithoutRollback(bucket, bucketName, entities) ==
    SaveLoop(bucket, bucketName, entities, 1)

\* A writer whose Put keeps the first value written for a key.
RECURSIVE SaveFirstWins(_, _, _)
SaveFirstWins(bucket, bucketName, entities) ==
    IF entities = <<>> THEN [err |-> Nil, bucket |-> bucket]
    ELSE LET e == Head(entities)
             r == SaveFirstWins(bucket, bucketName, Tail(entities))
             one == SaveLoop(r.bucket, bucketName, <<e>>, 1)
         IN  IF r.err # Nil THEN [err |-> r.err, bucket |-> bucket]
             ELSE IF one.err # Nil THEN [err |-> one.err, bucket |-> bucket]
             ELSE one

\* saveEntitiesToDatabase: db.Update commits when the function returns nil
\* and rolls every put back when it returns an error.
saveEntitiesToDatabase(bucket, bucketName, entities) ==
    LET r == SaveLoop(bucket, bucketName, entities, 1)
    IN  IF r.err # Nil THEN [err |-> r.err, bucket |-> bucket] ELSE r

\* A lookup without the test for a missing key.
GetEntityUnchecked(db, bucketName, sku) ==
    IF sku \in DOMAIN db[bucketName]
    THEN [err |-> Nil, entity |-> <<Unmarshal(bucketName, db[bucketName][sku])>>]
    ELSE [err |-> Nil, entity |-> <<>>]

\* GetEntity's View: the stored object under sku, decoded, or not found.
GetEntity(db, bucketName, sku) ==
    IF sku \in DOMAIN db[bucketName]
    THEN [err |-> Nil, entity |-> <<Unmarshal(bucketName, db[bucketName][sku])>>]
    ELSE [err |-> "not found", entity |-> <<>>]

\* GetAllEntities' View: bucket.ForEach in key order, each value decoded.
RECURSIVE ForEach(_, _, _)
ForEach(bucket, bucketName, i) ==
    IF i > Len(KeyOrder) THEN <<>>
    ELSE (IF KeyOrder[i] \in DOMAIN bucket
          THEN <<Unmarshal(bucketName, bucket[KeyOrder[i]])>>
          ELSE <<>>) \o ForEach(bucket, bucketName, i + 1)

GetAllEntities(db, bucketName) == ForEach(db[bucketName], bucketName, 1)

\* ------------------------------------------------------------- pagination
\* strings.ToLower on the relation names the upstream uses.
ToLower(s) ==
    CASE s \in {"self", "Self", "SELF"} -> "self"
      [] s \in {"last", "Last", "LAST"} -> "last"
      [] OTHER -> s

\* The href isLastPage ends with for relation rel: the last matching link's,
\* or "" when no link matches.
RECURSIVE HrefOf(_, _, _)
HrefOf(links, rel, href) ==
    IF links = <<>> THEN href
    ELSE HrefOf(Tail(links), rel,
                IF ToLower(Head(links).Rel) = rel THEN Head(links).Href
                ELSE href)

\* A last-page test that compares the relation names as they are sent.
IsLastPageCaseSensitive(links) ==
    LET href(rel) ==
            LET idx == {i \in 1..Len(links) : links[i].Rel = rel}
            IN  IF idx = {} THEN ""
                ELSE links[CHOOSE i \in idx : \A j \in idx : j <= i].Href
    IN  href("self") # "" /\ href("last") # "" /\ href("self") = href("last")

\* A last-page test that never reports the last page.
IsLastPageNever(links) == FALSE

isLastPage(links) ==
    LET selfHref == HrefOf(links, "self", "")
        lastHref == HrefOf(links, "last", "")
    IN  selfHref # "" /\ lastHref # "" /\ selfHref = lastHref

\* page++ that skips a page.
NextPageSkips(p) == p + 2

\* page++
NextPage(p) == p + 1

\* A backoff that grows by two seconds with every attempt.
BackoffLinear(a) == 2 * a

\* 1 << uint(attempt), in seconds.
Backoff(a) == 2 ^ a

\* --------------------------------------------------------- makeHTTPRequest
\* http.StatusOK
StatusOK == 200

\* An error text is the sequence of its words; a phrase is contained in it
\* when its words occur in it in a row.
LowerWord(w) ==
    CASE w = "Timeout" -> "timeout"
      [] w = "Connection" -> "connection"
      [] w = "REFUSED" -> "refused"
      [] OTHER -> w

\* strings.Contains(strings.ToLower(text), phrase)
Contains(text, phrase) ==
    \E i \in 0..(Len(text) - Len(phrase)) :
        \A j \in 1..Len(phrase) : LowerWord(text[i + j]) = phrase[j]

retryableErrors ==
    << <<"timeout">>, <<"connection", "refused">>, <<"connection", "reset">>,
       <<"no", "such", "host">>, <<"network", "is", "unreachable">>,
       <<"temporary", "failure">>, <<"i/o", "timeout">>,
       <<"context", "deadline", "exceeded">> >>

\* isRetryableError, called with the non-nil error of client.Do.
isRetryableError(text) ==
    \E i \in 1..Len(retryableErrors) : Contains(text, retryableErrors[i])

retryableCodes == <<408, 429, 500, 502, 503, 504>>

\* A status test that takes every 5xx status, and no other, for retryable.
IsServerError(statusCode) == statusCode >= 500

isRetryableStatusCode(statusCode) ==
    \E i \in 1..Len(retryableCodes) : statusCode = retryableCodes[i]

\* What one request meets: whether the URL makes a request, the error of the
\* transport (<<>> when the server answered), the status of the answer, and
\* its body ("page": the JSON of a page, "garbage": not that, "cut": the
\* body cannot be read to its end).
Exchange(url, transport, status, body) ==
    [url |-> url, transport |-> transport, status |-> status, body |-> body]

\* makeHTTPRequest: the error it returns, Nil when it returns the decoded
\* result.
makeHTTPRequest(x) ==
    IF x.url # "ok" THEN "error creating request"
    ELSE IF x.transport # <<>>
    THEN (IF isRetryableError(x.transport) THEN "retryable network error"
          ELSE "non-retryable request error")
    ELSE IF isRetryableStatusCode(x.status) THEN "retryable HTTP error"
    ELSE IF x.status # StatusOK THEN "non-retryable HTTP error"
    ELSE IF x.body = "cut" THEN "error reading response body"
    ELSE IF x.body # "page" THEN "decode error"
    ELSE Nil

\* ---------------------------------------------------------------- upstream
\* A page response (GenericAPIResponse); Metadata is never read by the code.
Page(links, entities) == [Links |-> links, Entities |-> entities]

Link(rel, href) == [Rel |-> rel, Href |-> href]

\* Link lists: a middle page, the last of one page, the last of two pages
\* (relations in another case), both hrefs empty, no links at all.
Mid == <<Link("self", "p1"), Link("next", "p2"), Link("last", "p2")>>
End1 == <<Link("self", "p1"), Link("last", "p1")>>
End2 == <<Link("Self", "p2"), Link("prev", "p1"), Link("LAST", "p2")>>
Blank == <<Link("self", ""), Link("last", "")>>
NoLinks == <<>>

\* The catalog listings the upstream may hold: a SKU repeated across pages,
\* a SKU repeated within a page, an entity without identifier on page 2, and
\* a single page whose links carry empty hrefs.
ProductFeeds ==
    << <<Page(Mid, <<WireProduct("A", "x"), WireProduct("B", "x")>>),
         Page(End2, <<WireProduct("A", "y")>>)>>,
       <<Page(End1, <<WireProduct("A", "x"), WireProduct("A", "y")>>)>>,
       <<Page(Mid, <<WireProduct("B", "y")>>),
         Page(End2, <<WireProduct("A", "x"), WireProduct("", "x")>>)>>,
       <<Page(Blank, <<WireProduct("A", "x")>>)>> >>

\* The price listings: one good page with a malformed number, a second page
\* with a number that is not serializable (twice), and a page without
\* entities or links.  Listing i goes with catalog listing i.
PriceFeeds ==
    << <<Page(End1, <<WirePrice("A", "10", "25"), WirePrice("B", "abc", "")>>)>>,
       <<Page(Mid, <<WirePrice("A", "25", "10")>>),
         Page(End2, <<WirePrice("B", "10", ""), WirePrice("A", "NaN", "")>>)>>,
       <<Page(NoLinks, <<>>)>>,
       <<Page(Mid, <<WirePrice("B", "25", "")>>),
         Page(End2, <<WirePrice("A", "1e999", "10")>>)>> >>

Feed(productPages, pricePages) ==
    [products |-> productPages, prices |-> pricePages]

Feeds == {Feed(ProductFeeds[i], PriceFeeds[i]) : i \in 1..Len(ProductFeeds)}

\* What a FetchPage call can fail with (makeHTTPRequest's error returns).
FailureKinds ==
    {"retryable network error", "non-retryable request error",
     "retryable HTTP error", "non-retryable HTTP error", "decode error"}

\* The failures the upstream of Spec produces: the network is down, or the
\* page does not exist.
UpstreamFailures == {"retryable network error", "non-retryable HTTP error"}

\* ------------------------------------------------------------------ state
Procs == {"main", "startup", "job", "http"}

VARIABLES
    store,      \* the database file: bucket name -> bucket
    holder,     \* the process holding the file lock of an open handle, or None
    api,        \* the upstream listings: bucket name -> sequence of pages
    pc,         \* each process's position inside the db function it runs
    step,       \* each process's position in its caller (index of the call)
    cycles,     \* how many times the scheduler has fired the job
    page,       \* FetchAllEntities: page
    attempt,    \* fetchPageWithRetry: attempt
    maxRetries, \* fetchPageWithRetry: maxRetries
    lastErr,    \* fetchPageWithRetry: lastErr
    slept,      \* fetchPageWithRetry: the backoff sleeps made, in seconds
    resp,       \* FetchAllEntities: response (0 or 1 page)
    err,        \* the error the db function returned to its caller
    got,        \* the entities GetAllEntities returned to its caller
    products,   \* GetAllProductsHandler: products
    reply,      \* the HTTP response of the last request (0 or 1)
    calls,      \* history: FetchPage calls of the current fetchPageWithRetry
    fetched,    \* history: the pages the current sync run fetched, in order
    failed,     \* history: a FetchPage call of the current sync run failed
    commits,    \* history: the batches the current sync run committed
    written,    \* history: bucket name -> key -> last wire entity committed
    synced,     \* history: bucket name -> the bucket as the first successful
                \*          sync left it (0 or 1)
    resynced,   \* history: bucket name -> a later sync succeeded too
    lastSave,   \* history: the last saveEntitiesToDatabase call (0 or 1)
    lastGet,    \* history: the last GetEntity call since the last write
    applied     \* history: the last call of a function without effects, with
                \*          its arguments and its result (0 or 1)

vars == <<store, holder, api, pc, step, cycles, page, attempt, maxRetries,
          lastErr, slept, resp, err, got, products, reply, calls, fetched,
          failed, commits, written, synced, resynced, lastSave, lastGet,
          applied>>

dbVars == <<store, holder>>
retryVars == <<attempt, maxRetries, lastErr, slept>>
runVars == <<page, attempt, maxRetries, lastErr, slept, resp, calls, fetched,
             failed, commits>>
histVars == <<written, synced, resynced, lastSave, lastGet>>
httpVars == <<products, reply>>

\* The db calls each caller makes, in order.
Call(fn, bucketName) == [fn |-> fn, bucket |-> bucketName]

Script(p) ==
    CASE p = "main" ->
           <<Call("initBucket", "products"), Call("initBucket", "prices")>>
      [] p \in {"startup", "job"} ->
           <<Call("FetchAllEntities", "products"),
             Call("FetchAllEntities", "prices"),
             Call("GetAllEntities", "products"),
             Call("GetAllEntities", "prices")>>
      [] OTHER ->
           <<Call("GetAllEntities", "products"),
             Call("GetAllEntities", "prices")>>

Cur(p) == Script(p)[step[p]]

\* The first statement of each db function is an open of the database
\* (FetchAllEntities starts with initBucket).
Entry(fn) == IF fn = "GetAllEntities" THEN "ga_open" ELSE "ib_open"

Syncing(p) == step[p] > 0 /\ Cur(p).fn = "FetchAllEntities"

\* The locals of a db function before it runs.
ClearRun(p) ==
    /\ page' = [page EXCEPT ![p] = 0]
    /\ attempt' = [attempt EXCEPT ![p] = 0]
    /\ maxRetries' = [maxRetries EXCEPT ![p] = 0]
    /\ lastErr' = [lastErr EXCEPT ![p] = Nil]
    /\ slept' = [slept EXCEPT ![p] = <<>>]
    /\ resp' = [resp EXCEPT ![p] = <<>>]
    /\ calls' = [calls EXCEPT ![p] = 0]
    /\ fetched' = [fetched EXCEPT ![p] = <<>>]
    /\ failed' = [failed EXCEPT ![p] = FALSE]
    /\ commits' = [commits EXCEPT ![p] = 0]

\* The caller makes its call number s.
Begin(p, s) ==
    /\ step' = [step EXCEPT ![p] = s]
    /\ pc' = [pc EXCEPT ![p] = Entry(Script(p)[s].fn)]
    /\ err' = [err EXCEPT ![p] = Nil]
    /\ ClearRun(p)

\* The caller is done (to: "done" for good, "idle" until it is started again).
Finish(p, to) ==
    /\ step' = [step EXCEPT ![p] = 0]
    /\ pc' = [pc EXCEPT ![p] = to]
    /\ err' = [err EXCEPT ![p] = Nil]
    /\ ClearRun(p)

Idle == [p \in Procs |-> "idle"]
Zero == [p \in Procs |-> 0]

InitLocals ==
    /\ cycles = 0
    /\ slept = [p \in Procs |-> <<>>]
    /\ lastErr = [p \in Procs |-> Nil]
    /\ resp = [p \in Procs |-> <<>>]
    /\ err = [p \in Procs |-> Nil]
    /\ got = [p \in Procs |-> <<>>]
    /\ products = <<>>
    /\ reply = <<>>
    /\ calls = Zero
    /\ fetched = [p \in Procs |-> <<>>]
    /\ failed = [p \in Procs |-> FALSE]
    /\ commits = Zero
    /\ written = [b \in Buckets |-> EmptyBucket]
    /\ synced = [b \in Buckets |-> <<>>]
    /\ resynced = [b \in Buckets |-> FALSE]
    /\ lastSave = <<>>
    /\ lastGet = <<>>
    /\ applied = <<>>

\* The process starts on a database file without buckets.
Init ==
    /\ InitLocals
    /\ holder = None
    /\ page = Zero
    /\ store = EmptyBucket
    /\ api \in Feeds
    /\ pc = Idle
    /\ step = Zero
    /\ attempt = Zero
    /\ maxRetries = Zero

\* ---------------------------------------------------------------- history
\* The wire entity last committed under each key once a batch is committed:
\* for a key of the batch, the batch's last entity with that key.
Committed(w, entities) ==
    LET idx(k) == {i \in 1..Len(entities) : GetSKU(entities[i]) = k}
        last(k) == CHOOSE i \in idx(k) : \A j \in idx(k) : j <= i
    IN  [k \in DOMAIN w \cup {GetSKU(entities[i]) : i \in 1..Len(entities)} |->
            IF idx(k) # {} THEN entities[last(k)] ELSE w[k]]

\* The keys of the entities of a failed batch that precede the first entity
\* that cannot be serialized or written.
Preceding(bucketName, entities) ==
    LET bad(i) == \/ GetSKU(entities[i]) = ""
                  \/ Marshal(bucketName, Transform(bucketName, entities[i])).err
        before == {i \in 1..Len(entities) : \A j \in 1..i : ~bad(j)}
    IN  {GetSKU(entities[i]) : i \in before}

\* The keys a batch writes again: already in the bucket, or twice in the batch.
Rewritten(bucket, entities) ==
    {k \in {GetSKU(entities[i]) : i \in 1..Len(entities)} :
        \/ k \in DOMAIN bucket
        \/ \E i, j \in 1..Len(entities) :
              i < j /\ GetSKU(entities[i]) = k /\ GetSKU(entities[j]) = k}

\* bucket is the bucket before the call, r what the call returned.
SaveRecord(bucket, bucketName, entities, r) ==
    <<[bucket |-> bucketName, err |-> r.err,
       preceding |-> IF r.err = Nil THEN {}
                     ELSE Preceding(bucketName, entities),
       rewritten |-> IF r.err = Nil THEN Rewritten(bucket, entities) ELSE {}]>>

\* ------------------------------------------------------- opening the store
OpenPcs == {"ib_open", "fa_open", "ga_open"}

AfterOpen(l) ==
    CASE l = "ib_open" -> "ib_update"
      [] l = "fa_open" -> "fetch"
      [] OTHER -> "ga_view"

\* The db function returns e to its caller.
Return(p, e) ==
    /\ pc' = [pc EXCEPT ![p] = "ret"]
    /\ err' = [err EXCEPT ![p] = e]

\* FetchAllEntities calls fetchPageWithRetry(config, fetcher, pg, 3).
EnterRetry(p, pg) ==
    /\ page' = [page EXCEPT ![p] = pg]
    /\ attempt' = [attempt EXCEPT ![p] = 1]
    /\ maxRetries' = [maxRetries EXCEPT ![p] = DefaultMaxRetries]
    /\ lastErr' = [lastErr EXCEPT ![p] = Nil]
    /\ slept' = [slept EXCEPT ![p] = <<>>]
    /\ resp' = [resp EXCEPT ![p] = <<>>]
    /\ calls' = [calls EXCEPT ![p] = 0]

\* An open that does not wait for the file lock.
OpenShared(p) ==
    /\ pc[p] \in OpenPcs
    /\ holder' = p
    /\ pc' = [pc EXCEPT ![p] = AfterOpen(pc[p])]
    /\ IF pc[p] = "fa_open" THEN EnterRetry(p, 1)
       ELSE UNCHANGED <<page, retryVars, resp, calls>>
    /\ UNCHANGED <<store, api, applied, step, cycles, err, got, httpVars, fetched,
                   failed, commits, histVars>>

\* bolt.Open takes the file lock; FetchAllEntities then sets page := 1 and
\* enters its loop.
Open(p) ==
    /\ pc[p] \in OpenPcs
    /\ holder = None
    /\ holder' = p
    /\ pc' = [pc EXCEPT ![p] = AfterOpen(pc[p])]
    /\ IF pc[p] = "fa_open" THEN EnterRetry(p, 1)
       ELSE UNCHANGED <<page, retryVars, resp, calls>>
    /\ UNCHANGED <<store, api, applied, step, cycles, err, got, httpVars, fetched,
                   failed, commits, histVars>>

\* bolt.Open gives up after Timeout (3 s) while another handle holds the
\* lock: the db function returns "error opening database".
OpenTimeout(p) ==
    /\ pc[p] \in OpenPcs
    /\ holder \notin {None, p}
    /\ Return(p, "open")
    /\ UNCHANGED <<dbVars, api, applied, step, cycles, runVars, got, httpVars, histVars>>

\* An initBucket that leaves its handle open when FetchAllEntities goes on
\* to its own bolt.Open.
InitBucketKeepsHandle(p) ==
    /\ pc[p] = "ib_update"
    /\ store' = CreateBucketIfNotExists(store, Cur(p).bucket)
    /\ IF Cur(p).fn = "initBucket"
       THEN holder' = None /\ Return(p, Nil)
       ELSE /\ holder' = holder
            /\ pc' = [pc EXCEPT ![p] = "fa_open"]
            /\ UNCHANGED err
    /\ UNCHANGED <<api, applied, step, cycles, runVars, got, httpVars, histVars>>

\* initBucket's Update and deferred Close; inside FetchAllEntities the next
\* statement is the second bolt.Open.
InitBucketUpdate(p) ==
    /\ pc[p] = "ib_update"
    /\ store' = CreateBucketIfNotExists(store, Cur(p).bucket)
    /\ holder' = None
    /\ IF Cur(p).fn = "initBucket" THEN Return(p, Nil)
       ELSE pc' = [pc EXCEPT ![p] = "fa_open"] /\ UNCHANGED err
    /\ UNCHANGED <<api, applied, step, cycles, runVars, got, httpVars, histVars>>

\* ------------------------------------------------------ fetchPageWithRetry
\* The loop condition after attempt++, off by one.
RetryAgainShort(a, m) == a + 1 < m

\* for ...; attempt <= maxRetries; attempt++
RetryAgain(a, m) == a + 1 <= m

\* if attempt < maxRetries { time.Sleep(backoff) }
ShouldSleep(a, m) == a < m

\* fetcher.FetchPage succeeds: the upstream has the page and the request and
\* the decoding went through.  fetchPageWithRetry returns the response.
FetchPageOk(p) ==
    /\ pc[p] = "fetch"
    /\ page[p] <= Len(api[Cur(p).bucket])
    /\ resp' = [resp EXCEPT ![p] = <<api[Cur(p).bucket][page[p]]>>]
    /\ calls' = [calls EXCEPT ![p] = @ + 1]
    /\ fetched' = [fetched EXCEPT ![p] = Append(@, page[p])]
    /\ lastErr' = [lastErr EXCEPT ![p] = Nil]
    /\ pc' = [pc EXCEPT ![p] = "save"]
    /\ UNCHANGED <<dbVars, api, applied, step, cycles, page, attempt, maxRetries,
                   slept, err, got, httpVars, failed, commits, histVars>>

\* An exhaustion that is logged and followed by the fetch of the next page.
FetchPageFailSkips(p, kind) ==
    /\ pc[p] = "fetch"
    /\ failed' = [failed EXCEPT ![p] = TRUE]
    /\ IF RetryAgain(attempt[p], maxRetries[p])
       THEN /\ attempt' = [attempt EXCEPT ![p] = @ + 1]
            /\ calls' = [calls EXCEPT ![p] = @ + 1]
            /\ slept' = [slept EXCEPT ![p] = Append(@, Backoff(attempt[p]))]
            /\ lastErr' = [lastErr EXCEPT ![p] = kind]
            /\ UNCHANGED <<page, maxRetries, resp>>
       ELSE EnterRetry(p, NextPage(page[p]))
    /\ UNCHANGED <<dbVars, api, applied, pc, step, cycles, err, got, httpVars, fetched,
                   commits, histVars>>

\* A retry loop that gives up at once on a failure that is not retryable.
FetchPageFailPicky(p, kind) ==
    LET again == /\ RetryAgain(attempt[p], maxRetries[p])
                 /\ kind \in {"retryable network error", "retryable HTTP error"}
    IN  /\ pc[p] = "fetch"
        /\ calls' = [calls EXCEPT ![p] = @ + 1]
        /\ failed' = [failed EXCEPT ![p] = TRUE]
        /\ slept' = [slept EXCEPT
                       ![p] = IF again THEN Append(@, Backoff(attempt[p]))
                              ELSE @]
        /\ attempt' = [attempt EXCEPT ![p] = @ + 1]
        /\ IF again
           THEN /\ lastErr' = [lastErr EXCEPT ![p] = kind]
                /\ UNCHANGED <<pc, err, holder>>
           ELSE /\ lastErr' = [lastErr EXCEPT ![p] = Nil]
                /\ Return(p, "fetch")
                /\ holder' = None
        /\ UNCHANGED <<store, api, applied, step, cycles, page, maxRetries, resp,
                       got, httpVars, fetched, commits, histVars>>

\* fetcher.FetchPage fails: sleep and try again, or, the attempts used up,
\* return the exhaustion error, which FetchAllEntities returns at once
\* (its deferred Close releases the store).  lastErr lives until
\* fetchPageWithRetry returns.
FetchPageFail(p, kind) ==
    /\ pc[p] = "fetch"
    /\ calls' = [calls EXCEPT ![p] = @ + 1]
    /\ failed' = [failed EXCEPT ![p] = TRUE]
    /\ slept' = [slept EXCEPT
                   ![p] = IF ShouldSleep(attempt[p], maxRetries[p])
                          THEN Append(@, Backoff(attempt[p])) ELSE @]
    /\ attempt' = [attempt EXCEPT ![p] = @ + 1]
    /\ IF RetryAgain(attempt[p], maxRetries[p])
       THEN /\ lastErr' = [lastErr EXCEPT ![p] = kind]
            /\ UNCHANGED <<pc, err, holder>>
       ELSE /\ lastErr' = [lastErr EXCEPT ![p] = Nil]
            /\ Return(p, "fetch")
            /\ holder' = None
    /\ UNCHANGED <<store, api, applied, step, cycles, page, maxRetries, resp, got,
                   httpVars, fetched, commits, histVars>>

\* ------------------------------------------------- FetchAllEntities' loop
\* saveEntitiesToDatabase on the fetched page; on an error FetchAllEntities
\* returns; otherwise it returns nil on the last page, or goes on to the
\* next page.
SavePage(p) ==
    /\ pc[p] = "save"
    /\ LET b == Cur(p).bucket
           response == resp[p][1]
           r == saveEntitiesToDatabase(store[b], b, response.Entities)
       IN  /\ store' = [store EXCEPT ![b] = r.bucket]
           /\ lastSave' = SaveRecord(store[b], b, response.Entities, r)
           /\ lastGet' = <<>>
           /\ IF r.err # Nil
              THEN /\ Return(p, "save")
                   /\ holder' = None
                   /\ UNCHANGED <<page, retryVars, resp, calls, commits,
                                  written, synced, resynced>>
              ELSE /\ written' = [written EXCEPT
                                    ![b] = Committed(@, response.Entities)]
                   /\ commits' = [commits EXCEPT ![p] = @ + 1]
                   /\ IF isLastPage(response.Links)
                      THEN /\ Return(p, Nil)
                           /\ holder' = None
                           /\ resynced' = [resynced EXCEPT ![b] = synced[b] # <<>>]
                           /\ synced' = [synced EXCEPT
                                ![b] = IF @ = <<>> THEN <<r.bucket>> ELSE @]
                           /\ UNCHANGED <<page, retryVars, resp, calls>>
                      ELSE /\ EnterRetry(p, NextPage(page[p]))
                           /\ pc' = [pc EXCEPT ![p] = "fetch"]
                           /\ UNCHANGED <<err, holder, synced, resynced>>
    /\ UNCHANGED <<api, applied, step, cycles, got, httpVars, fetched, failed>>

\* GetAllEntities' View and deferred Close.
GetAllView(p) ==
    /\ pc[p] = "ga_view"
    /\ got' = [got EXCEPT ![p] = GetAllEntities(store, Cur(p).bucket)]
    /\ holder' = None
    /\ Return(p, Nil)
    /\ UNCHANGED <<store, api, applied, step, cycles, runVars, httpVars, histVars>>

\* ----------------------------------------------------------------- callers
Serving == pc["main"] = "done"

\* A db function has returned and its caller has not yet reacted ("ret"), or
\* the handler has written its reply and not yet returned ("replied").  What
\* the caller does next (test err, log, make the next call, return) touches
\* only its own locals and takes no time: no step of another process is
\* placed before it.
Returning == \E p \in Procs : pc[p] \in {"ret", "replied"}

\* A new run of a caller starts only between such reactions.
CanStart(p) == pc[p] = "idle" /\ ~Returning

\* db.Init: initBucket for "products", then for "prices"; log.Fatal on an
\* error.
DbInit ==
    /\ CanStart("main") \/ pc["main"] = "ret"
    /\ IF pc["main"] = "idle" THEN Begin("main", 1)
       ELSE IF err["main"] # Nil THEN Finish("main", "fatal")
       ELSE IF step["main"] < 2 THEN Begin("main", step["main"] + 1)
       ELSE Finish("main", "done")
    /\ UNCHANGED <<dbVars, api, applied, cycles, got, httpVars, histVars>>

\* main's goroutine: the four calls one after the other, whatever each
\* returns.
StartupFetch ==
    /\ Serving
    /\ CanStart("startup") \/ pc["startup"] = "ret"
    /\ IF pc["startup"] = "idle" THEN Begin("startup", 1)
       ELSE IF step["startup"] < 4 THEN Begin("startup", step["startup"] + 1)
       ELSE Finish("startup", "done")
    /\ got' = [got EXCEPT !["startup"] = <<>>]
    /\ UNCHANGED <<dbVars, api, applied, cycles, httpVars, histVars>>

\* The scheduled task, fired by the scheduler every 15 minutes (a run starts
\* when the previous one is over): it returns when FetchAllProducts or FetchAllPrices
\* returns an error, and logs what the two reads return.
ScheduledJob ==
    /\ Serving
    /\ CanStart("job") \/ pc["job"] = "ret"
    /\ IF pc["job"] = "idle"
       THEN /\ cycles < MaxCycles
            /\ cycles' = cycles + 1
            /\ Begin("job", 1)
       ELSE /\ UNCHANGED cycles
            /\ IF step["job"] <= 2 /\ err["job"] # Nil
               THEN Finish("job", "idle")
               ELSE IF step["job"] < 4 THEN Begin("job", step["job"] + 1)
               ELSE Finish("job", "idle")
    /\ got' = [got EXCEPT !["job"] = <<>>]
    /\ UNCHANGED <<dbVars, api, applied, httpVars, histVars>>

\* The price the handler's priceMap holds for sku: the last one read.
PriceOf(prices, sku) ==
    LET idx == {i \in 1..Len(prices) : prices[i].Sku = sku}
    IN  IF idx = {} THEN <<>>
        ELSE <<prices[CHOOSE i \in idx : \A j \in idx : j <= i]>>

\* A response item built without looking at the prices.
ResponseDataWithoutPrice(product, prices) ==
    [Nombre |-> product.ConsumerDescription,
     Clave |-> product.Sku,
     Categoria |-> product.ItemSalesCategoryCodeKey,
     Modelo |-> product.ItemSeries \o " " \o product.SeriesId,
     Costo |-> Fin(0),
     Costo2 |-> Fin(0),
     Proveedor |-> product.Supplier,
     CantidadSillas |-> product.ChairQtyPerCarton,
     CantidadPorPaquete |-> product.ItemsPerCase,
     Descontinuado |-> product.Status,
     Alto |-> product.UnitHeightMm,
     Largo |-> product.UnitWidthMm,
     Ancho |-> product.UnitDepthMm,
     Peso |-> product.ItemWeightKg]

\* The ProductResponseData the handler builds for one product.
ResponseData(product, prices) ==
    LET price == PriceOf(prices, product.Sku)
    IN  [Nombre |-> product.ConsumerDescription,
         Clave |-> product.Sku,
         Categoria |-> product.ItemSalesCategoryCodeKey,
         Modelo |-> product.ItemSeries \o " " \o product.SeriesId,
         Costo |-> IF price # <<>> THEN price[1].SellPrice ELSE Fin(0),
         Costo2 |-> IF price # <<>> THEN price[1].TotalNetPrice ELSE Fin(0),
         Proveedor |-> product.Supplier,
         CantidadSillas |-> product.ChairQtyPerCarton,
         CantidadPorPaquete |-> product.ItemsPerCase,
         Descontinuado |-> product.Status,
         Alto |-> product.UnitHeightMm,
         Largo |-> product.UnitWidthMm,
         Ancho |-> product.UnitDepthMm,
         Peso |-> product.ItemWeightKg]

\* The handler's response slice: nil when there is no product.
Response(prods, prices) ==
    [i \in 1..Len(prods) |-> ResponseData(prods[i], prices)]

\* json.NewEncoder(w).Encode(response): a nil slice is encoded as null.
Encode(response) ==
    IF response = <<>> THEN [form |-> "null", items |-> <<>>]
    ELSE [form |-> "array", items |-> response]

\* http.Error(w, text, 500)
ErrorReply ==
    [status |-> 500, contentType |-> "text/plain",
     body |-> [form |-> "text", items |-> <<>>]]

OkReply(response) ==
    [status |-> 200, contentType |-> "application/json",
     body |-> Encode(response)]

\* GetAllProductsHandler: GetAllProducts, GetAllPrices, the join, the reply
\* (status, headers and body as the client gets them), and the return.
GetAllProductsHandler ==
    /\ Serving
    /\ CanStart("http") \/ pc["http"] \in {"ret", "replied"}
    /\ IF pc["http"] = "idle"
       THEN /\ Begin("http", 1)
            /\ UNCHANGED <<products, got, reply>>
       ELSE IF pc["http"] = "replied"
       THEN /\ reply' = <<>>
            /\ products' = <<>>
            /\ got' = [got EXCEPT !["http"] = <<>>]
            /\ Finish("http", "idle")
       ELSE IF err["http"] # Nil
       THEN /\ reply' = <<ErrorReply>>
            /\ pc' = [pc EXCEPT !["http"] = "replied"]
            /\ UNCHANGED <<products, got, step, err, runVars>>
       ELSE IF step["http"] = 1
       THEN /\ products' = got["http"]
            /\ got' = [got EXCEPT !["http"] = <<>>]
            /\ Begin("http", 2)
            /\ UNCHANGED reply
       ELSE /\ reply' = <<OkReply(Response(products, got["http"]))>>
            /\ pc' = [pc EXCEPT !["http"] = "replied"]
            /\ UNCHANGED <<products, got, step, err, runVars>>
    /\ UNCHANGED <<dbVars, api, applied, cycles, histVars>>

Next ==
    \/ DbInit
    \/ StartupFetch
    \/ ScheduledJob
    \/ GetAllProductsHandler
    \/ ~Returning /\ \E p \in Procs : Open(p)
    \/ ~Returning /\ \E p \in Procs : OpenTimeout(p)
    \/ ~Returning /\ \E p \in Procs : InitBucketUpdate(p)
    \/ ~Returning /\ \E p \in Procs : FetchPageOk(p)
    \/ ~Returning /\ \E p \in Procs, kind \in UpstreamFailures :
                        FetchPageFail(p, kind)
    \/ ~Returning /\ \E p \in Procs : SavePage(p)
    \/ ~Returning /\ \E p \in Procs : GetAllView(p)

Spec == Init /\ [][Next]_vars

\* The service under a scheduler that keeps the program running and lets
\* every bolt.Open come to its end: the lock is taken when it is free, and
\* Timeout (3 s) bounds the wait when it is not.
OpenStep(p) == ~Returning /\ (Open(p) \/ OpenTimeout(p))

FairSpec == Spec /\ WF_vars(Next) /\ \A p \in Procs : SF_vars(OpenStep(p))

\* ----------------------------------------------- fetchPageWithRetry alone
\* fetchPageWithRetry(config, fetcher, page, maxRetries) for any maxRetries
\* from 1 to MaxAttempts and any page, called by the startup goroutine's
\* FetchAllEntities, against an upstream that may fail in every way.
Caller == "startup"

RetryInit ==
    /\ InitLocals
    /\ api \in Feeds
    /\ store = [b \in Buckets |-> EmptyBucket]
    /\ holder = Caller
    /\ pc = [p \in Procs |->
               IF p = Caller THEN "fetch" ELSE IF p = "main" THEN "done"
               ELSE "idle"]
    /\ step \in {[Zero EXCEPT ![Caller] = s] : s \in 1..2}
    /\ page \in {[Zero EXCEPT ![Caller] = pg] : pg \in 1..3}
    /\ attempt = [Zero EXCEPT ![Caller] = 1]
    /\ maxRetries \in {[Zero EXCEPT ![Caller] = m] : m \in 1..MaxAttempts}

RetryNext ==
    \/ FetchPageOk(Caller)
    \/ \E kind \in FailureKinds : FetchPageFail(Caller, kind)

RetrySpec == RetryInit /\ [][RetryNext]_vars

\* ------------------------------------------------------- the store alone
\* saveEntitiesToDatabase and GetEntity called in any order with any batch
\* of at most MaxBatch wire entities, on a database that db.Init set up, by
\* a caller that works with one fetcher: step picks it (1 for the
\* ProductFetcher, 2 for the PriceFetcher).
StoreProducts ==
    {WireProduct("A", "x"), WireProduct("A", "y"), WireProduct("B", "x"),
     WireProduct("", "x")}

StorePrices ==
    {WirePrice("A", "10", "25"), WirePrice("A", "25", "10"),
     WirePrice("B", "abc", ""), WirePrice("B", "NaN", "10"),
     WirePrice("A", "1e999", ""), WirePrice("", "10", "")}

WireEntities(bucketName) ==
    IF bucketName = "products" THEN StoreProducts ELSE StorePrices

Batches(bucketName) ==
    UNION {[1..n -> WireEntities(bucketName)] : n \in 0..MaxBatch}

StoreInit ==
    /\ InitLocals
    /\ api = Feed(ProductFeeds[1], PriceFeeds[1])
    /\ store = [b \in Buckets |-> EmptyBucket]
    /\ holder = None
    /\ pc = [Idle EXCEPT !["main"] = "done"]
    /\ step \in {[Zero EXCEPT ![Caller] = s] : s \in 1..2}
    /\ page = Zero
    /\ attempt = Zero
    /\ maxRetries = Zero

\* saveEntitiesToDatabase(db, fetcher, entities) on a handle of the caller.
StoreSave(entities) ==
    LET bucketName == Cur(Caller).bucket
        r == saveEntitiesToDatabase(store[bucketName], bucketName, entities)
    IN  /\ store' = [store EXCEPT ![bucketName] = r.bucket]
        /\ lastSave' = SaveRecord(store[bucketName], bucketName, entities, r)
        /\ lastGet' = <<>>
        /\ written' = IF r.err # Nil THEN written
                      ELSE [written EXCEPT
                              ![bucketName] = Committed(@, entities)]
        /\ UNCHANGED <<holder, api, applied, pc, step, cycles, runVars, err, got,
                       httpVars, synced, resynced>>

\* GetEntity(bucketName, sku, &entity): open, View, deferred Close.
StoreGet(sku) ==
    /\ holder = None
    /\ lastGet' = <<[bucket |-> Cur(Caller).bucket, sku |-> sku,
                     result |-> GetEntity(store, Cur(Caller).bucket, sku)]>>
    /\ UNCHANGED <<dbVars, api, applied, pc, step, cycles, runVars, err, got, httpVars,
                   written, synced, resynced, lastSave>>

StoreNext ==
    \/ \E entities \in Batches(Cur(Caller).bucket) : StoreSave(entities)
    \/ \E sku \in WireSkus : StoreGet(sku)

StoreSpec == StoreInit /\ [][StoreNext]_vars

\* ------------------------------------------- the functions without effects
\* PriceFetcher.Transform and makeHTTPRequest applied to any argument of the
\* sets below, in any order; the store is the one db.Init set up.
NumericStrings == {"", "10", "25", "abc", "NaN", "1e999"}

PurePrices ==
    {WirePrice(sku, sell, total) :
        sku \in {"A", "B"}, sell \in NumericStrings, total \in NumericStrings}

StatusCodes ==
    {100, 200, 201, 204, 206, 299, 301, 304, 400, 401, 403, 404, 408, 409,
     429, 499, 500, 501, 502, 503, 504, 505, 599}

TransportErrors ==
    {<<"dial", "tcp", "Connection", "REFUSED">>,
     <<"read", "tcp", "i/o", "Timeout">>,
     <<"lookup", "no", "such", "host">>,
     <<"context", "deadline", "exceeded">>,
     <<"tls", "handshake", "failure">>,
     <<"unsupported", "protocol", "scheme">>}

Exchanges ==
    {Exchange("ok", <<>>, c, b) : c \in StatusCodes, b \in {"page", "garbage"}}
    \cup {Exchange("ok", t, 0, "") : t \in TransportErrors}
    \cup {Exchange("ok", <<>>, StatusOK, "cut"), Exchange("bad", <<>>, 0, "")}

PureInit ==
    /\ InitLocals
    /\ api = Feed(ProductFeeds[1], PriceFeeds[1])
    /\ store = [b \in Buckets |-> EmptyBucket]
    /\ holder = None
    /\ pc = [Idle EXCEPT !["main"] = "done"]
    /\ step = Zero
    /\ page = Zero
    /\ attempt = Zero
    /\ maxRetries = Zero

Applied(fn, arg, result) == <<[fn |-> fn, arg |-> arg, result |-> result]>>

ApplyTransform(entity) ==
    /\ applied' = Applied("Transform", entity, PriceTransform(entity))
    /\ UNCHANGED <<dbVars, api, pc, step, cycles, runVars, err, got, httpVars,
                   histVars>>

ApplyRequest(x) ==
    /\ applied' = Applied("makeHTTPRequest", x, makeHTTPRequest(x))
    /\ UNCHANGED <<dbVars, api, pc, step, cycles, runVars, err, got, httpVars,
                   histVars>>

PureNext ==
    \/ \E entity \in PurePrices : ApplyTransform(entity)
    \/ \E x \in Exchanges : ApplyRequest(x)

PureSpec == PureInit /\ [][PureNext]_vars

\* ------------------------------------------------- two calls side by side
\* Two calls of fetchPageWithRetry with the same page and the same
\* maxRetries, each with its own locals, against an upstream that may fail
\* each FetchPage call of each of them in every way.
Runs == {"startup", "job"}

TwinInit ==
    /\ InitLocals
    /\ api \in Feeds
    /\ store = [b \in Buckets |-> EmptyBucket]
    /\ holder = Caller
    /\ pc = [p \in Procs |->
               IF p \in Runs THEN "fetch" ELSE IF p = "main" THEN "done"
               ELSE "idle"]
    /\ step \in {[p \in Procs |-> IF p \in Runs THEN s ELSE 0] : s \in 1..2}
    /\ page = [p \in Procs |-> IF p \in Runs THEN 1 ELSE 0]
    /\ attempt = [p \in Procs |-> IF p \in Runs THEN 1 ELSE 0]
    /\ maxRetries \in {[p \in Procs |-> IF p \in Runs THEN m ELSE 0] :
                          m \in 1..MaxAttempts}

TwinNext ==
    \E p \in Runs :
        \/ FetchPageOk(p)
        \/ \E kind \in FailureKinds : FetchPageFail(p, kind)

TwinSpec == TwinInit /\ [][TwinNext]_vars

\* -------------------------------------------------- the pagination loop
\* One FetchAllEntities run of the products, from its first fetch on, over a
\* listing of two pages whose first page carries any list of at most
\* MaxLinks links, against an upstream that answers every request.
LinkRels == {"self", "last", "LAST", "next"}
LinkHrefs == {"", "p1", "p2"}
AnyLinks ==
    UNION {[1..n -> {Link(rel, href) : rel \in LinkRels, href \in LinkHrefs}] :
              n \in 0..MaxLinks}

LoopInit ==
    /\ InitLocals
    /\ api \in {Feed(<<Page(links, <<WireProduct("A", "x")>>),
                        Page(End2, <<WireProduct("B", "x")>>)>>,
                      PriceFeeds[1]) : links \in AnyLinks}
    /\ store = [b \in Buckets |-> EmptyBucket]
    /\ holder = Caller
    /\ pc = [p \in Procs |->
               IF p = Caller THEN "fetch" ELSE IF p = "main" THEN "done"
               ELSE "idle"]
    /\ step = [Zero EXCEPT ![Caller] = 1]
    /\ page = [Zero EXCEPT ![Caller] = 1]
    /\ attempt = [Zero EXCEPT ![Caller] = 1]
    /\ maxRetries = [Zero EXCEPT ![Caller] = DefaultMaxRetries]

LoopNext ==
    \/ FetchPageOk(Caller)
    \/ SavePage(Caller)

LoopSpec == LoopInit /\ [][LoopNext]_vars

\* ================================================================= claims
\* C1: with maxRetries >= 1, fetchPageWithRetry never makes more than
\* maxRetries FetchPage calls; while it is still trying, every call so far
\* has failed and fewer than maxRetries were made; when it returns a
\* response, that is the response of its last call, call number j =
\* attempt <= maxRetries, made after j - 1 failed calls (each followed by a
\* sleep); when it returns the exhaustion error it has made exactly
\* maxRetries calls.
C1_RetryBound ==
    \A p \in Procs : maxRetries[p] >= 1 =>
        /\ calls[p] <= maxRetries[p]
        /\ pc[p] = "fetch" =>
              /\ calls[p] = attempt[p] - 1
              /\ calls[p] < maxRetries[p]
              /\ resp[p] = <<>>
        /\ pc[p] = "save" =>
              /\ resp[p] = <<api[Cur(p).bucket][page[p]]>>
              /\ calls[p] = attempt[p]
              /\ Len(slept[p]) = calls[p] - 1
        /\ pc[p] = "ret" /\ err[p] = "fetch" =>
              /\ calls[p] = maxRetries[p]
              /\ resp[p] = <<>>

\* A response returned by the last allowed call, after maxRetries - 1 failures.
C1_Witness ==
    \E p \in Procs : /\ pc[p] = "save"
                      /\ maxRetries[p] = MaxAttempts
                      /\ calls[p] = MaxAttempts

\* The source of C2: the links of a page carry a "self" and a "last" link
\* (relations compared without case) whose hrefs are equal.
SelfEqualsLast(links) ==
    \E i, j \in 1..Len(links) :
        /\ ToLower(links[i].Rel) = "self"
        /\ ToLower(links[j].Rel) = "last"
        /\ links[i].Href = links[j].Href

\* The pages k of a listing whose "self" href equals their "last" href.
FinalPages(pages) == {k \in 1..Len(pages) : SelfEqualsLast(pages[k].Links)}

\* "self" equals "last" exactly at one page, final.
HasFinal(pages) == Cardinality(FinalPages(pages)) = 1
Final(pages) == CHOOSE k \in FinalPages(pages) : TRUE

\* The hrefs of the "self" and "last" links of a page are not empty.
HrefsGiven(links) ==
    \A i \in 1..Len(links) :
        ToLower(links[i].Rel) \in {"self", "last"} => links[i].Href # ""

\* Every entity of the page has an identifier and a serializable transform.
Writable(bucketName, entities) ==
    \A i \in 1..Len(entities) :
        /\ GetSKU(entities[i]) # ""
        /\ ~Marshal(bucketName, Transform(bucketName, entities[i])).err

\* The pages 1..n in order.
UpTo(n) == [k \in 1..n |-> k]

\* A sync run of p that has fetched, and in which no FetchPage call failed.
CleanRun(p) == Syncing(p) /\ fetched[p] # <<>> /\ ~failed[p]

C3_UpsertLastWins ==
    \A b \in Buckets :
        /\ DOMAIN store[b] = DOMAIN written[b]
        /\ \A k \in DOMAIN written[b] :
              Unmarshal(b, store[b][k]) = Transform(b, written[b][k])
        /\ Len(GetAllEntities(store, b)) = Cardinality(DOMAIN written[b])

\* A committed batch wrote an identifier again, into a bucket of two records.
C3_Witness ==
    /\ lastSave # <<>>
    /\ lastSave[1].err = Nil
    /\ lastSave[1].rewritten # {}
    /\ Cardinality(DOMAIN store[lastSave[1].bucket]) = 2

\* C4: a GetEntity that follows the writes of an identifier without a write
\* in between returns, without error, an entity equal field by field to the
\* transform of the wire entity last committed with that identifier.
C4_RoundTrip ==
    lastGet # <<>> =>
        LET g == lastGet[1]
        IN  g.sku \in DOMAIN written[g.bucket] =>
              /\ g.result.err = Nil
              /\ g.result.entity =
                    <<Transform(g.bucket, written[g.bucket][g.sku])>>

\* A price with parsed amounts read back.
C4_Witness ==
    /\ lastGet # <<>>
    /\ lastGet[1].bucket = "prices"
    /\ lastGet[1].result.err = Nil
    /\ lastGet[1].result.entity[1].SellPrice = Fin(25)
    /\ lastGet[1].result.entity[1].TotalNetPrice = Fin(10)

\* A sync run of p on its bucket has returned.
SyncReturned(p) == Syncing(p) /\ pc[p] = "ret"

\* The statement of C5 as the specification words it: once a sync of a
\* bucket has succeeded, every sync run of that bucket that has written
\* leaves, when it returns, the bucket as that first successful sync left it.
C5_Original ==
    \A p \in Procs :
        (SyncReturned(p) /\ commits[p] >= 1
            /\ synced[Cur(p).bucket] # <<>>) =>
                store[Cur(p).bucket] = synced[Cur(p).bucket][1]

\* C5: against an unchanged source, once a sync of a bucket has succeeded,
\* the bucket keeps the identifiers that sync left, and GetAllEntities
\* returns as many entities, whatever runs later; and every later sync
\* that succeeds too leaves the bucket, identifiers and values, exactly as
\* the first successful sync left it.
C5_SecondSync ==
    \A b \in Buckets :
        synced[b] # <<>> =>
            /\ DOMAIN store[b] = DOMAIN synced[b][1]
            /\ Len(GetAllEntities(store, b)) =
                  Len(GetAllEntities([store EXCEPT ![b] = synced[b][1]], b))
            /\ \A p \in Procs :
                  (SyncReturned(p) /\ Cur(p).bucket = b /\ err[p] = Nil) =>
                      store[b] = synced[b][1]

\* A second sync of the products succeeded and returns: two entities stay two.
C5_Witness ==
    \E p \in Procs :
        /\ SyncReturned(p) /\ err[p] = Nil
        /\ Cur(p).bucket = "products"
        /\ resynced["products"]
        /\ Len(fetched[p]) = 2
        /\ Len(GetAllEntities(store, "products")) = 2

\* C6: a saveEntitiesToDatabase call that returns an error leaves the
\* database exactly as it was before the call: nothing of the batch is
\* stored, everything committed before stays.
C6_AllOrNothing ==
    [][(lastSave' # <<>> /\ lastSave'[1].err # Nil) =>
          (store' = store /\ written' = written)]_vars

\* A batch failed after an entity that could be written, that entity is not
\* in the bucket, and the bucket holds records of earlier batches.
C6_Witness ==
    /\ lastSave # <<>>
    /\ lastSave[1].err # Nil
    /\ ~(lastSave[1].preceding \subseteq DOMAIN store[lastSave[1].bucket])
    /\ store[lastSave[1].bucket] # EmptyBucket

\* C7: the step in which the last allowed FetchPage call of page k fails, or
\* in which the batch write of page k fails, makes FetchAllEntities return
\* an error; the returning step leaves the store as it was, holding the
\* k - 1 batches the run committed, releases the store, asks for no further
\* page and writes nothing more; and the caller's next step goes on to
\* another call or ends, it does not start the same sync again.
C7_AbortOnFailure ==
    [][\A p \in Procs :
          /\ (/\ Syncing(p)
              /\ pc[p] = "fetch"
              /\ attempt[p] = maxRetries[p]
              /\ calls'[p] # calls[p]
              /\ pc'[p] # "save") =>
                (pc'[p] = "ret" /\ err'[p] # Nil)
          /\ (/\ Syncing(p)
              /\ pc[p] = "save"
              /\ pc'[p] # "save"
              /\ lastSave'[1].err # Nil) =>
                (pc'[p] = "ret" /\ err'[p] # Nil)
          /\ (/\ Syncing(p)
              /\ pc[p] \in {"fetch", "save"}
              /\ pc'[p] = "ret"
              /\ err'[p] # Nil) =>
                /\ store' = store
                /\ written' = written
                /\ holder' = None
                /\ page'[p] = page[p]
                /\ fetched'[p] \in {UpTo(page[p] - 1), UpTo(page[p])}
                /\ commits'[p] = page[p] - 1
          /\ (/\ Syncing(p)
              /\ pc[p] = "ret"
              /\ err[p] # Nil
              /\ pc'[p] # "ret") =>
                /\ store' = store
                /\ step'[p] # step[p]
                /\ fetched'[p] = <<>>]_vars

\* The batch write failed on page 2 after page 1 was committed.
C7_Witness ==
    \E p \in Procs :
        /\ SyncReturned(p) /\ err[p] = "save"
        /\ page[p] = 2 /\ commits[p] = 1
        /\ store[Cur(p).bucket] # EmptyBucket

\* C8: a sync run fetches the pages 1, 2, 3, ... in this order, each once,
\* and asks for page N + 1 only when the batches of the pages 1..N are
\* committed: the page it is fetching or saving is the number of batches it
\* has committed plus one.
C8_SequentialPages ==
    \A p \in Procs :
        Syncing(p) =>
            /\ fetched[p] = UpTo(Len(fetched[p]))
            /\ pc[p] = "fetch" =>
                  (page[p] = commits[p] + 1 /\ Len(fetched[p]) = commits[p])
            /\ pc[p] = "save" =>
                  (page[p] = commits[p] + 1 /\ Len(fetched[p]) = page[p])

\* Page 2 is fetched, after the batch of page 1 was committed.
C8_Witness ==
    \E p \in Procs :
        /\ Syncing(p) /\ pc[p] = "save"
        /\ page[p] = 2 /\ commits[p] = 1 /\ fetched[p] = <<1, 2>>

\* A sync run is between two page writes: it has committed a batch and is
\* fetching the next page.
BetweenPages(p) == Syncing(p) /\ pc[p] = "fetch" /\ commits[p] >= 1

\* The statement of C9: a sync run between two page writes does not hold the
\* store, and a GetAllEntities that tries to open the store meanwhile does
\* not end with the open error.
C9_HandlePerOperation ==
    /\ \A p \in Procs : BetweenPages(p) => holder # p
    /\ \A q \in Procs :
          (/\ pc[q] = "ret"
           /\ Cur(q).fn = "GetAllEntities"
           /\ \E p \in Procs : BetweenPages(p)) => err[q] # "open"

\* The statement of C10: the reply is 500 with a plain-text body when a read
\* failed, and otherwise 200 with a JSON array, the empty array when no
\* product was read.
C10_HandlerReplies ==
    reply # <<>> =>
        IF err["http"] # Nil
        THEN /\ reply[1].status = 500
             /\ reply[1].contentType = "text/plain"
             /\ reply[1].body.form = "text"
        ELSE /\ reply[1].status = 200
             /\ reply[1].contentType = "application/json"
             /\ reply[1].body.form = "array"
             /\ products = <<>> => reply[1].body.items = <<>>

\* The statement of C11: PriceFetcher.Transform gives, for each numeric
\* string field of the wire price, 0.0 when the string is empty, the parsed
\* value when the string parses, and 0.0 when parsing reports an error.
C11_ParsePolicy ==
    (applied # <<>> /\ applied[1].fn = "Transform") =>
        \A f \in FloatFields("prices") :
            LET s == applied[1].arg[f]
                v == applied[1].result[f]
            IN  /\ s = "" => v = Fin(0)
                /\ (s # "" /\ ~ParseFloat64(s).err) => v = ParseFloat64(s).val
                /\ (s # "" /\ ParseFloat64(s).err) => v = Fin(0)

\* The identifiers of the entities of a batch.
KeysOf(entities) == {GetSKU(entities[i]) : i \in 1..Len(entities)}

\* C12: no step removes a bucket or an identifier from a bucket, and the
\* record of an identifier changes only in the step of a sync that writes a
\* batch holding that identifier: every other record is still returned
\* unchanged by GetEntity.
C12_NothingRemoved ==
    [][\A b \in DOMAIN store :
          /\ b \in DOMAIN store'
          /\ \A k \in DOMAIN store[b] :
                /\ k \in DOMAIN store'[b]
                /\ \/ GetEntity(store', b, k) = GetEntity(store, b, k)
                   \/ \E p \in Procs :
                         /\ Syncing(p) /\ pc[p] = "save"
                         /\ Cur(p).bucket = b
                         /\ k \in KeysOf(resp[p][1].Entities)]_vars

\* A sync has just committed its second page, which does not hold an
\* identifier that the bucket holds.
C12_Witness ==
    \E p \in Procs :
        /\ SyncReturned(p) /\ err[p] = Nil /\ commits[p] = 2
        /\ \E k \in DOMAIN store[Cur(p).bucket] :
              k \notin KeysOf(resp[p][1].Entities)

\* What a read of a bucket returns when the bucket holds exactly the batches
\* committed so far, each as a whole: the transforms of the wire entities
\* last committed, in key order.
RECURSIVE WholeBatches(_, _, _)
WholeBatches(w, bucketName, i) ==
    IF i > Len(KeyOrder) THEN <<>>
    ELSE (IF KeyOrder[i] \in DOMAIN w
          THEN <<Transform(bucketName, w[KeyOrder[i]])>>
          ELSE <<>>) \o WholeBatches(w, bucketName, i + 1)

\* GetAllEntities has returned its entities to q.
ReadReturned(q) ==
    /\ step[q] > 0
    /\ Cur(q).fn = "GetAllEntities"
    /\ pc[q] = "ret"
    /\ err[q] = Nil

\* C13: what GetAllEntities returns is the content of the bucket after a
\* whole number of batches: every batch committed before the read is in it
\* with all its entities, and nothing of a batch that failed or is not yet
\* committed.
C13_ReadsSeeWholeBatches ==
    \A q \in Procs :
        ReadReturned(q) =>
            got[q] = WholeBatches(written[Cur(q).bucket], Cur(q).bucket, 1)

\* A read returned one entity after a batch of the bucket had failed behind
\* an entity that could be written.
C13_Witness ==
    \E q \in Procs :
        /\ ReadReturned(q)
        /\ Len(got[q]) = 1
        /\ lastSave # <<>>
        /\ lastSave[1].bucket = Cur(q).bucket
        /\ lastSave[1].preceding # {}

LastHref(links, rel) ==
    LET idx == {i \in 1..Len(links) : ToLower(links[i].Rel) = rel}
    IN  IF idx = {} THEN ""
        ELSE links[CHOOSE i \in idx : \A j \in idx : j <= i].Href

\* The step of p persists a page: it leaves "save" with the batch committed.
Persists(p) ==
    /\ Syncing(p)
    /\ pc[p] = "save"
    /\ pc'[p] # "save"
    /\ lastSave'[1].err = Nil

\* The loop of p stops with this step / goes on to the next page.
Stops(p) == pc'[p] = "ret" /\ err'[p] = Nil /\ page'[p] = page[p]
Advances(p) ==
    pc'[p] = "fetch" /\ page'[p] = page[p] + 1 /\ calls'[p] = 0

\* The statement of C15 as the specification words it: after persisting a
\* page the loop stops if and only if the links hold a "self" link and a
\* "last" link with equal hrefs, whatever the href, and advances otherwise.
C15_Original ==
    [][\A p \in Procs :
          Persists(p) =>
              IF SelfEqualsLast(resp[p][1].Links) THEN Stops(p)
              ELSE Advances(p)]_vars

\* C15: after persisting a page the loop stops if and only if the last
\* "self" link and the last "last" link of the page (relations compared
\* without case) carry the same, non-empty href; otherwise (a link missing,
\* an empty href, different hrefs) it advances to page + 1 and fetches again.
C15_StopRule ==
    [][\A p \in Procs :
          Persists(p) =>
              LET selfHref == LastHref(resp[p][1].Links, "self")
                  lastHref == LastHref(resp[p][1].Links, "last")
              IN  IF selfHref # "" /\ selfHref = lastHref THEN Stops(p)
                  ELSE Advances(p)]_vars

\* The loop stopped after page 1 on links with a relation in capitals and
\* two "self" links, the last of which carries the href of "last".
C15_Witness ==
    \E p \in Procs :
        /\ SyncReturned(p) /\ err[p] = Nil /\ fetched[p] = <<1>>
        /\ resp[p][1].Links =
              <<Link("self", "p2"), Link("self", "p1"), Link("LAST", "p1")>>

\* C16: two calls of fetchPageWithRetry with the same arguments that have
\* made the same number of FetchPage calls, failed at the same ones of
\* them (all of them, or all but the last), agree on the number of
\* attempts, on the waits between them and on whether they go on, have
\* the response or have returned the exhaustion error, whatever the kinds
\* of the failures were.
C16_KindBlind ==
    \A p, q \in Runs :
        (/\ maxRetries[p] = maxRetries[q]
         /\ calls[p] = calls[q]
         /\ (resp[p] = <<>>) = (resp[q] = <<>>))
        => /\ attempt[p] = attempt[q]
           /\ slept[p] = slept[q]
           /\ pc[p] = pc[q]
           /\ err[p] = err[q]

\* Two calls that failed twice each, the one with a retryable network error
\* last, the other with a terminal HTTP status, and wait for attempt 3.
C16_Witness ==
    \E p, q \in Runs :
        /\ calls[p] = 2 /\ calls[q] = 2
        /\ pc[p] = "fetch" /\ pc[q] = "fetch"
        /\ lastErr[p] = "retryable network error"
        /\ lastErr[q] = "non-retryable HTTP error"
        /\ Len(slept[p]) = 2 /\ slept[p] = slept[q]

\* The waits of a call of p made so far: one after every failed FetchPage
\* call that another attempt follows.
WaitsDue(p) ==
    IF pc[p] = "fetch" THEN calls[p]
    ELSE IF pc[p] = "save" THEN calls[p] - 1
    ELSE maxRetries[p] - 1

\* The statement of C17 as the specification words it: the waits before
\* attempts 2, 3, 4, ... are 1, 2, 4, ... seconds.
C17_Original ==
    \A p \in Procs : \A i \in 1..Len(slept[p]) : slept[p][i] = 2 ^ (i - 1)

\* C17: in fetchPageWithRetry there is no wait before the first attempt and
\* none after the last one; the wait before attempt 2 is 2 seconds and
\* every later wait is twice the one before it (2 s, 4 s, 8 s, ...).
C17_Backoff ==
    \A p \in Procs : maxRetries[p] >= 1 =>
        /\ Len(slept[p]) = WaitsDue(p)
        /\ \A i \in 1..Len(slept[p]) :
              slept[p][i] = IF i = 1 THEN 2 ELSE 2 * slept[p][i - 1]

\* A call that has waited before its attempts 2, 3 and 4.
C17_Witness ==
    \E p \in Procs : Len(slept[p]) >= 3 /\ SubSeq(slept[p], 1, 3) = <<2, 4, 8>>

\* makeHTTPRequest was applied to an exchange whose request was built and
\* whose transport call succeeded.
Answered ==
    /\ applied # <<>>
    /\ applied[1].fn = "makeHTTPRequest"
    /\ applied[1].arg.url = "ok"
    /\ applied[1].arg.transport = <<>>

\* The statement of C18 as the specification words it: retryable failure
\* exactly for 408, 429, 500, 502, 503, 504; non-retryable failure exactly
\* for the other statuses outside 200..299; the body is decoded for every
\* status in 200..299.
C18_Original ==
    Answered =>
        LET c == applied[1].arg.status
            r == applied[1].result
        IN  /\ (r = "retryable HTTP error") <=>
                   c \in {408, 429, 500, 502, 503, 504}
            /\ (r = "non-retryable HTTP error") <=>
                   (c \notin 200..299 /\ c \notin {408, 429, 500, 502, 503, 504})
            /\ (c \in 200..299 /\ applied[1].arg.body = "page") => r = Nil

\* C18: for a response whose transport call succeeded, makeHTTPRequest
\* reports a retryable failure exactly for the statuses 408, 429, 500, 502,
\* 503, 504, a non-retryable failure exactly for every other status but
\* 200 (201, 204, 206 and 299 included), and reads and decodes the body
\* for status 200 only.
C18_StatusClasses ==
    Answered =>
        LET c == applied[1].arg.status
            r == applied[1].result
        IN  /\ (r = "retryable HTTP error") <=>
                   c \in {408, 429, 500, 502, 503, 504}
            /\ (r = "non-retryable HTTP error") <=>
                   (c # 200 /\ c \notin {408, 429, 500, 502, 503, 504})
            /\ (r \in {Nil, "decode error", "error reading response body"})
                   <=> c = 200
            /\ (c = 200 /\ applied[1].arg.body = "page") => r = Nil

\* A 204 answer with a well-formed body, reported as a non-retryable failure.
C18_Witness ==
    /\ Answered
    /\ applied[1].arg.status = 204
    /\ applied[1].arg.body = "page"
    /\ applied[1].result = "non-retryable HTTP error"

\* C19: a process that is opening the store holds no handle; its open can
\* take the lock when no handle is held and gives up with the open error
\* when another process holds one; every open attempt ends; and the
\* service never reaches a state without a next step.
C19_OpenEnds ==
    /\ [](\A p \in Procs : pc[p] \in OpenPcs =>
              /\ holder # p
              /\ holder = None => ENABLED Open(p)
              /\ holder # None => ENABLED OpenTimeout(p))
    /\ [](ENABLED Next)
    /\ \A p \in Procs : (pc[p] \in OpenPcs) ~> (pc[p] \notin OpenPcs)

\* The handler's open has given up while the job's sync held the store
\* between two pages.
C19_Witness ==
    /\ pc["http"] = "ret" /\ err["http"] = "open"
    /\ holder = "job" /\ pc["job"] = "fetch" /\ page["job"] = 2

\* C20: initBucket leaves every bucket that exists, the one it names
\* included, with the records it holds, adds nothing but the named bucket,
\* empty, when that one is missing, and returns nil once it has opened the
\* database; an initBucket that cannot open the database returns the open
\* error and changes nothing.  So calling it on a database that has the
\* bucket, a second call after a first one included, changes nothing.
C20_InitBucketIdempotent ==
    [][\A p \in Procs :
          /\ (pc[p] = "ib_update" /\ pc'[p] # "ib_update") =>
                LET b == Cur(p).bucket
                IN  /\ DOMAIN store' = DOMAIN store \cup {b}
                    /\ \A c \in DOMAIN store : store'[c] = store[c]
                    /\ b \notin DOMAIN store => store'[b] = EmptyBucket
                    /\ b \in DOMAIN store => store' = store
                    /\ IF Cur(p).fn = "initBucket"
                       THEN pc'[p] = "ret" /\ err'[p] = Nil
                       ELSE pc'[p] = "fa_open"
          /\ (pc[p] = "ib_open" /\ pc'[p] = "ret") =>
                (store' = store /\ err'[p] = "open")]_vars

\* The initBucket of a sync has run on a bucket that holds records, and the
\* sync is about to open the database for its loop.
C20_Witness ==
    \E p \in Procs :
        /\ Syncing(p) /\ pc[p] = "fa_open"
        /\ Cur(p).bucket \in DOMAIN store
        /\ store[Cur(p).bucket] # EmptyBucket

\* The positions at which a db function has the database open.
HoldingPcs == {"ib_update", "fetch", "save", "ga_view"}

\* p is inside the page loop of a FetchAllEntities run.
InLoop(p) == Syncing(p) /\ pc[p] \in {"fetch", "save"}

\* C21: at most one process has the database open at any time, and it is
\* the holder of the file lock; a step that changes the store or commits a
\* page is a step of that process, taken while no other process is inside
\* the page loop of a sync, and adds to no other run's commits; and a sync
\* whose open gives up returns the open error having fetched and committed
\* nothing, by a step that leaves the store as it is.
C21_OneWriter ==
    /\ [](\A p, q \in Procs :
              /\ pc[p] \in HoldingPcs => holder = p
              /\ (pc[p] \in HoldingPcs /\ pc[q] \in HoldingPcs) => p = q
              /\ (Syncing(p) /\ pc[p] = "ret" /\ err[p] = "open") =>
                    (commits[p] = 0 /\ fetched[p] = <<>>))
    /\ [][\A p \in Procs :
              /\ (store' # store \/ commits'[p] > commits[p]) =>
                    \E w \in Procs :
                        /\ holder = w /\ pc[w] \in {"ib_update", "save"}
                        /\ pc'[w] # pc[w] \/ page'[w] # page[w]
                        /\ \A q \in Procs \ {w} :
                              /\ ~InLoop(q)
                              /\ commits'[q] = commits[q]
                              /\ pc'[q] = pc[q]
              /\ (Syncing(p) /\ pc[p] \in OpenPcs /\ pc'[p] = "ret") =>
                    (err'[p] = "open" /\ store' = store
                     /\ holder \notin {None, p} /\ holder' = holder)
              /\ (Syncing(p) /\ pc[p] = "ib_update" /\ pc'[p] # pc[p]) =>
                    store' = store]_vars

\* A sync has returned the open error, with nothing fetched or committed,
\* while another sync that has committed its first page holds the store.
C21_Witness ==
    \E p, q \in Procs :
        /\ Syncing(p) /\ pc[p] = "ret" /\ err[p] = "open" /\ commits[p] = 0
        /\ p # q /\ holder = q /\ InLoop(q) /\ commits[q] >= 1

\* C22: in every bucket, every key is the identifier (Sku) of the storage
\* entity that the record stored under it decodes to, and no key is empty.
C22_KeyIsSku ==
    \A b \in DOMAIN store : \A k \in DOMAIN store[b] :
        /\ k # ""
        /\ GetSKU(Unmarshal(b, store[b][k])) = k

\* The prices bucket holds a record under each of the two identifiers.
C22_Witness ==
    /\ DOMAIN store["prices"] = {"A", "B"}
    /\ lastSave # <<>> /\ lastSave[1].err = Nil

\* The handler has written a 200 reply and has not yet returned.
Replied200 == pc["http"] = "replied" /\ reply # <<>> /\ reply[1].status = 200

\* items is the join of prods with prices by identifier: one item per
\* product, in the order of prods, with the product's identifier and
\* description and the costs of the price of the same identifier, 0 when
\* there is none.
Joined(prods, prices, items) ==
    /\ Len(items) = Len(prods)
    /\ \A i \in 1..Len(prods) :
          LET match == {j \in 1..Len(prices) : prices[j].Sku = prods[i].Sku}
          IN  /\ items[i].Clave = prods[i].Sku
              /\ items[i].Nombre = prods[i].ConsumerDescription
              /\ IF match = {}
                 THEN items[i].Costo = Fin(0) /\ items[i].Costo2 = Fin(0)
                 ELSE \A j \in match :
                         /\ items[i].Costo = prices[j].SellPrice
                         /\ items[i].Costo2 = prices[j].TotalNetPrice

\* entities is what a read of the bucket returns: every stored record,
\* decoded, once.
ReadOf(bucket, bucketName, entities) ==
    /\ Len(entities) = Cardinality(DOMAIN bucket)
    /\ \A k \in DOMAIN bucket :
          \E i \in 1..Len(entities) :
              /\ GetSKU(entities[i]) = k
              /\ entities[i] = Unmarshal(bucketName, bucket[k])

\* C23: the handler's GetAllProducts and GetAllPrices each return every
\* record their collection holds when they read it; products is what
\* GetAllProducts returned; and a 200 reply is the join of products, in
\* that order, with the prices GetAllPrices returned: one item per product,
\* costo and costo2 from the price of the same identifier, 0 when there is
\* none, and no item for a price without product.
C23_Join ==
    /\ [](Replied200 => Joined(products, got["http"], reply[1].body.items))
    /\ [][/\ (pc["http"] = "ga_view" /\ pc'["http"] = "ret") =>
                ReadOf(store[Cur("http").bucket], Cur("http").bucket,
                       got'["http"])
          /\ (step["http"] = 1 /\ step'["http"] = 2) =>
                (products' = got["http"] /\ Cur("http").bucket = "products")
          /\ (pc["http"] = "ret" /\ pc'["http"] = "replied"
              /\ reply'[1].status = 200) =>
                (step["http"] = 2 /\ Cur("http").bucket = "prices"
                 /\ products' = products /\ got' = got)]_vars

\* A 200 reply of the two products A and B, A with the costs 10 and 25 of
\* its price.
C23_Witness ==
    /\ Replied200
    /\ Len(reply[1].body.items) = 2
    /\ reply[1].body.items[1].Clave = "A"
    /\ reply[1].body.items[1].Costo = Fin(10)
    /\ reply[1].body.items[1].Costo2 = Fin(25)
    /\ reply[1].body.items[2].Clave = "B"

====
